---- MODULE Spec2Model ----
(***************************************************************************)
(* Operation registration and pipeline activation of hypermodel.hml:       *)
(* the module globals _current_pipeline / _old_pipeline, _pipeline_enter,  *)
(* _pipeline_exit, HmlContainerOp.__init__ (argument binding) and the      *)
(* fluent with_* configuration calls.                                      *)
(***************************************************************************)
EXTENDS Integers, Sequences, FiniteSets, TLC

VARIABLES
    current_pipeline,   \* module global _current_pipeline (a pipeline or None)
    old_pipeline,       \* module global _old_pipeline
    ops,                \* every HmlContainerOp constructed so far; the index is the object's identity
    ops_list,           \* per pipeline: the ordered list of operations _add_op appended
    ret,                \* outcome of the last call: what it returned or raised
    log,                \* levels of the records the last call handed to logging
    calls,              \* the calls made so far, each with the current pipeline it left
    nfluent             \* number of fluent configuration calls made so far

vars == <<current_pipeline, old_pipeline, ops, ops_list, ret, log, calls, nfluent>>

(* ----------------------------- bounds ---------------------------------- *)
MaxOps == 2        \* registrations per behaviour
MaxCalls == 5      \* enter/exit calls per behaviour of SpecNest
MaxFluent == 2     \* fluent calls per behaviour of SpecFluent

(* ------------------------- Python values ------------------------------- *)
None == [kind |-> "None"]
PyStr(s) == [kind |-> "str", s |-> s]
\* dsl.PipelineParam(name, op_name, value)
PipelineParam(name, op_name, value) ==
    [kind |-> "PipelineParam", name |-> name, op_name |-> op_name, value |-> value]
\* a reference to the HmlContainerOp with identity i
HmlRef(i) == [kind |-> "HmlContainerOp", id |-> i]
\* a reference to the dsl.ContainerOp held in the field `op` of HmlContainerOp i
OpRef(i) == [kind |-> "ContainerOp", id |-> i]

\* the exception that reading an attribute of None raises
AttributeError == [kind |-> "AttributeError"]

\* how a call ended: the call, the object it was made on (None for a module
\* function or a constructor) and what it returned or raised
Returned(call, self, val) == [call |-> call, self |-> self, kind |-> "return", val |-> val]
Raised(call, exc) == [call |-> call, self |-> None, kind |-> "raise", val |-> exc]

\* str: a name is kept as its sequence of characters, Str renders it
RECURSIVE Str(_)
Str(cs) == IF cs = <<>> THEN "" ELSE Head(cs) \o Str(Tail(cs))

train == <<"t", "r", "a", "i", "n">>
prev_op == <<"p", "r", "e", "v", "_", "o", "p">>
data == <<"d", "a", "t", "a">>
model_params == <<"m", "o", "d", "e", "l", "_", "p", "a", "r", "a", "m", "s">>

Funcs == {train, prev_op}
ParamNames == {data, model_params}

(* ----------------------------- pipelines ------------------------------- *)
PipelineNames == {"demo", "other", "third"}
\* a reference to the pipeline object of that name
PipeRef(n) == [kind |-> "HmlPipeline", name |-> n]
Pipelines == {PipeRef(n) : n \in PipelineNames}
\* the attributes of a pipeline object that the registrar reads
PipelineObj(p) ==
    [name |-> p.name, image_url |-> "img/" \o p.name,
     package_entrypoint |-> "run-" \o p.name]

(* ------------------------ sanitize_k8s_name ---------------------------- *)
LowerOf == [c \in {"A", "D", "O", "P", "T"} |->
              CASE c = "A" -> "a" [] c = "D" -> "d" [] c = "O" -> "o"
                [] c = "P" -> "p" [] c = "T" -> "t"]
lower(c) == IF c \in DOMAIN LowerOf THEN LowerOf[c] ELSE c
K8sChars == {"-", "0", "1", "2", "3", "4", "5", "6", "7", "8", "9",
             "a", "b", "c", "d", "e", "f", "g", "h", "i", "j", "k", "l", "m",
             "n", "o", "p", "q", "r", "s", "t", "u", "v", "w", "x", "y", "z"}
\* every character outside [-0-9a-z] becomes "-", and a run of "-" is one "-"
RECURSIVE Dashed(_, _)
Dashed(cs, prevDash) ==
    IF cs = <<>> THEN <<>>
    ELSE LET c == IF lower(Head(cs)) \in K8sChars THEN lower(Head(cs)) ELSE "-"
         IN  IF c = "-" /\ prevDash THEN Dashed(Tail(cs), TRUE)
             ELSE <<c>> \o Dashed(Tail(cs), c = "-")
RECURSIVE LStrip(_)
LStrip(cs) == IF cs # <<>> /\ Head(cs) = "-" THEN LStrip(Tail(cs)) ELSE cs
RECURSIVE RStrip(_)
RStrip(cs) ==
    IF cs # <<>> /\ cs[Len(cs)] = "-" THEN RStrip(SubSeq(cs, 1, Len(cs) - 1)) ELSE cs
sanitize_k8s_name(name) == RStrip(LStrip(Dashed(name, FALSE)))

(* ------------------- HmlContainerOp.__init__ --------------------------- *)
\* isinstance(input_value, dsl.PipelineParam) / isinstance(input_value, dsl.ContainerOp)
IsPipelineParam(v) == v.kind = "PipelineParam"
IsContainerOp(v) == v.kind = "ContainerOp"

\* one pass of the loop `for param_name in kwargs`; acc holds self.arguments,
\* self.inputs and the log records made so far; heap is the operations that exist
BindParamOpRef(heap, acc, param_name, input_value) ==
    LET input_op_name == sanitize_k8s_name(heap[input_value.id].op.name)
        p == PipelineParam(Str(param_name), Str(input_op_name), None)
    IN  [arguments |-> acc.arguments \o
                         <<PyStr("--" \o Str(param_name)),
                           PyStr("{{tasks." \o Str(input_op_name)
                                 \o ".outputs.parameters." \o Str(param_name) \o "}}")>>,
         inputs |-> Append(acc.inputs, p),
         log |-> Append(acc.log, "info")]

BindParamPipelineParam(acc, param_name, input_value) ==
    [arguments |-> acc.arguments \o <<PyStr("--" \o Str(param_name)), input_value>>,
     inputs |-> Append(acc.inputs, input_value),
     log |-> Append(acc.log, "info")]

BindParamLiteral_NoValue(acc, param_name, input_value) ==
    LET p == PipelineParam(Str(param_name), None, None)
    IN  [arguments |-> acc.arguments \o
                         <<PyStr("--" \o Str(param_name)),
                           PyStr("{{inputs.parameters." \o Str(param_name) \o "}}")>>,
         inputs |-> Append(acc.inputs, p),
         log |-> Append(acc.log, "info")]

BindParamLiteral(acc, param_name, input_value) ==
    LET p == PipelineParam(Str(param_name), None, input_value)
    IN  [arguments |-> acc.arguments \o
                         <<PyStr("--" \o Str(param_name)),
                           PyStr("{{inputs.parameters." \o Str(param_name) \o "}}")>>,
         inputs |-> Append(acc.inputs, p),
         log |-> Append(acc.log, "info")]

BindParam(heap, acc, param_name, input_value) ==
    IF IsPipelineParam(input_value)
    THEN BindParamPipelineParam(acc, param_name, input_value)
    ELSE IF IsContainerOp(input_value)
         THEN BindParamOpRef(heap, acc, param_name, input_value)
         ELSE BindParamLiteral(acc, param_name, input_value)

RECURSIVE BindAll_LastFirst(_, _, _)
BindAll_LastFirst(heap, acc, kwargs) ==
    IF kwargs = <<>> THEN acc
    ELSE BindAll_LastFirst(heap,
                           BindParam(heap, acc, kwargs[Len(kwargs)][1], kwargs[Len(kwargs)][2]),
                           SubSeq(kwargs, 1, Len(kwargs) - 1))

\* the loop over kwargs, in the mapping's iteration order
RECURSIVE BindAll(_, _, _)
BindAll(heap, acc, kwargs) ==
    IF kwargs = <<>> THEN acc
    ELSE BindAll(heap, BindParam(heap, acc, Head(kwargs)[1], Head(kwargs)[2]), Tail(kwargs))

\* self.arguments before the loop
BaseArguments(pipeline, name) ==
    <<PyStr("pipelines"), PyStr(PipelineObj(pipeline).name), PyStr(Str(name))>>

\* dsl.ContainerOp(name, image, command, arguments), then op.inputs = self.inputs
ContainerOp(name, image, command, arguments, inputs) ==
    [name |-> name, image |-> image, command |-> command, arguments |-> arguments,
     inputs |-> inputs, volumes |-> <<>>, volume_mounts |-> <<>>, env |-> <<>>]

\* the object __init__ leaves behind when a pipeline is active
NewHmlContainerOp(heap, pipeline, func, kwargs) ==
    LET name == func
        bound == BindAll(heap,
                         [arguments |-> BaseArguments(pipeline, name),
                          inputs |-> <<>>, log |-> <<>>],
                         kwargs)
    IN  [func |-> func,
         name |-> name,
         k8s_name |-> sanitize_k8s_name(name),
         kwargs |-> kwargs,
         pipeline |-> pipeline,
         inputs |-> bound.inputs,
         arguments |-> bound.arguments,
         op |-> ContainerOp(name, PipelineObj(pipeline).image_url,
                            PipelineObj(pipeline).package_entrypoint,
                            bound.arguments, bound.inputs),
         cli_command |-> Str(name)]

\* the log records of a successful __init__: one logging.info per keyword argument
RegisterLog(heap, func, kwargs) ==
    BindAll(heap, [arguments |-> <<>>, inputs |-> <<>>, log |-> <<>>], kwargs).log

\* pipeline._add_op(self): the pipeline's ordered operation list grows at its end
AddOp(lists, pipeline, id) ==
    [lists EXCEPT ![pipeline.name] = Append(@, id)]

\* self.pipeline = _current_pipeline
OwnerAtInit_Stale == IF old_pipeline # None THEN old_pipeline ELSE current_pipeline
OwnerAtInit == current_pipeline

\* __init__ with no pipeline active: logging.error, then self.pipeline.name on
\* None raises before anything is built or added
RegisterNoPipeline ==
    /\ log' = <<"error">>
    /\ ret' = Raised("register", AttributeError)
    /\ UNCHANGED <<current_pipeline, old_pipeline, ops, ops_list>>

\* __init__ with a pipeline active
RegisterActive(func, kwargs) ==
    LET id == Len(ops) + 1
        self == NewHmlContainerOp(ops, OwnerAtInit, func, kwargs)
    IN  /\ ops' = Append(ops, self)
        /\ ops_list' = AddOp(ops_list, self.pipeline, id)
        /\ log' = RegisterLog(ops, func, kwargs)
        /\ ret' = Returned("register", None, HmlRef(id))
        /\ UNCHANGED <<current_pipeline, old_pipeline>>

Register_SilentOwnerless(func, kwargs) ==
    IF current_pipeline = None
    THEN /\ log' = <<"error">>
         /\ ops' = Append(ops, [NewHmlContainerOp(ops, PipeRef("None"), func, kwargs)
                                  EXCEPT !.pipeline = None])
         /\ ret' = Returned("register", None, HmlRef(Len(ops) + 1))
         /\ UNCHANGED <<current_pipeline, old_pipeline, ops_list>>
    ELSE RegisterActive(func, kwargs)

Register_Reuse(func, kwargs) ==
    IF current_pipeline = None
    THEN RegisterNoPipeline
    ELSE IF \E i \in 1..Len(ops) : ops[i].func = func /\ ops[i].pipeline = current_pipeline
         THEN /\ ret' = Returned("register", None,
                                 HmlRef(CHOOSE i \in 1..Len(ops) :
                                          ops[i].func = func /\ ops[i].pipeline = current_pipeline))
              /\ log' = <<>>
              /\ UNCHANGED <<current_pipeline, old_pipeline, ops, ops_list>>
         ELSE RegisterActive(func, kwargs)

\* HmlContainerOp(func, kwargs)
Register(func, kwargs) ==
    IF current_pipeline = None
    THEN RegisterNoPipeline
    ELSE RegisterActive(func, kwargs)

(* ------------------ _pipeline_enter / _pipeline_exit ------------------- *)
\* _old_pipeline = _current_pipeline
SavedOnEnter_Stale == old_pipeline
SavedOnEnter == current_pipeline

Enter(pipeline) ==
    /\ log' = <<"info">>
    /\ old_pipeline' = SavedOnEnter
    /\ current_pipeline' = pipeline
    /\ ret' = Returned("enter", None, None)
    /\ UNCHANGED <<ops, ops_list>>

\* _current_pipeline = _old_pipeline
RestoredOnExit == old_pipeline

Exit_ClearsSaved ==
    IF current_pipeline = None
    THEN /\ ret' = Raised("exit", AttributeError)
         /\ log' = <<>>
         /\ UNCHANGED <<current_pipeline, old_pipeline, ops, ops_list>>
    ELSE /\ log' = <<"info">>
         /\ current_pipeline' = RestoredOnExit
         /\ old_pipeline' = None
         /\ ret' = Returned("exit", None, None)
         /\ UNCHANGED <<ops, ops_list>>

Exit ==
    IF current_pipeline = None
    THEN \* the log line reads _current_pipeline.name, which raises on None
         /\ ret' = Raised("exit", AttributeError)
         /\ log' = <<>>
         /\ UNCHANGED <<current_pipeline, old_pipeline, ops, ops_list>>
    ELSE /\ log' = <<"info">>
         /\ current_pipeline' = RestoredOnExit
         /\ ret' = Returned("exit", None, None)
         /\ UNCHANGED <<old_pipeline, ops, ops_list>>

(* ---------------------- fluent configuration -------------------------- *)
\* str(value) of with_env
PyInt(n) == [kind |-> "int", n |-> n]
DigitOf == [n \in 0..9 |->
              CASE n = 0 -> "0" [] n = 1 -> "1" [] n = 2 -> "2" [] n = 3 -> "3"
                [] n = 4 -> "4" [] n = 5 -> "5" [] n = 6 -> "6" [] n = 7 -> "7"
                [] n = 8 -> "8" [] n = 9 -> "9"]
str(value) == IF value.kind = "str" THEN value.s ELSE DigitOf[value.n]

V1Volume(name, source) == [name |-> name, source |-> source]
V1VolumeMount(name, mount_path) == [name |-> name, mount_path |-> mount_path]
V1EnvVar(name, value) == [name |-> name, value |-> value]

\* what each call does to the dsl.ContainerOp in self.op
SetImage(op, container_image_url) == [op EXCEPT !.image = container_image_url]
SetCommand(op, container_command, container_args) ==
    [op EXCEPT !.command = container_command, !.arguments = container_args]
MountSecret(op, secret_name, mount_path) ==
    [op EXCEPT !.volumes = Append(@, V1Volume(secret_name, "secret:" \o secret_name)),
               !.volume_mounts = Append(@, V1VolumeMount(secret_name, mount_path))]
\* op.apply(use_gcp_secret(secret_name)): the secret as a volume, its mount and
\* the variable GOOGLE_APPLICATION_CREDENTIALS pointing into it
ApplyGcpSecret(op, secret_name) ==
    [op EXCEPT !.volumes = Append(@, V1Volume("gcp-credentials-" \o secret_name,
                                               "secret:" \o secret_name)),
               !.volume_mounts = Append(@, V1VolumeMount("gcp-credentials-" \o secret_name,
                                                         "/secret/gcp-credentials")),
               !.env = Append(@, V1EnvVar("GOOGLE_APPLICATION_CREDENTIALS",
                                          "/secret/gcp-credentials/" \o secret_name \o ".json"))]
AddEnv(op, variable_name, value) ==
    [op EXCEPT !.env = Append(@, V1EnvVar(variable_name, str(value)))]
MountEmptyDir(op, name, mount_path) ==
    [op EXCEPT !.volumes = Append(@, V1Volume(name, "emptyDir")),
               !.volume_mounts = Append(@, V1VolumeMount(name, mount_path))]

\* a fluent call on the operation `self`: self.op is reconfigured, self is returned
Fluent(call, self, newop) ==
    /\ self \in 1..Len(ops)
    /\ ops' = [ops EXCEPT ![self].op = newop]
    /\ ret' = Returned(call, HmlRef(self), HmlRef(self))
    /\ log' = <<>>
    /\ UNCHANGED <<current_pipeline, old_pipeline, ops_list>>

with_image(self, container_image_url) ==
    Fluent("with_image", self, SetImage(ops[self].op, container_image_url))
with_command(self, container_command, container_args) ==
    Fluent("with_command", self, SetCommand(ops[self].op, container_command, container_args))
with_secret(self, secret_name, mount_path) ==
    Fluent("with_secret", self, MountSecret(ops[self].op, secret_name, mount_path))
with_gcp_auth(self, secret_name) ==
    Fluent("with_gcp_auth", self, ApplyGcpSecret(ops[self].op, secret_name))
with_env_ReturnsNothing(self, variable_name, value) ==
    /\ self \in 1..Len(ops)
    /\ ops' = [ops EXCEPT ![self].op = AddEnv(ops[self].op, variable_name, value)]
    /\ ret' = Returned("with_env", HmlRef(self), None)
    /\ log' = <<>>
    /\ UNCHANGED <<current_pipeline, old_pipeline, ops_list>>
with_env(self, variable_name, value) ==
    Fluent("with_env", self, AddEnv(ops[self].op, variable_name, value))
with_empty_dir(self, name, mount_path) ==
    Fluent("with_empty_dir", self, MountEmptyDir(ops[self].op, name, mount_path))

(* --------------------------- specifications ---------------------------- *)
Init ==
    /\ current_pipeline = None
    /\ old_pipeline = None
    /\ ops = <<>>
    /\ ops_list = [n \in PipelineNames |-> <<>>]
    /\ ret = Returned("none", None, None)
    /\ log = <<>>
    /\ calls = <<>>
    /\ nfluent = 0

\* the values a caller passes for a keyword argument: `data` is a literal (a
\* string, a number) or a pipeline parameter, `model_params` the handle of an
\* existing operation or that operation's dsl.ContainerOp
Literal == PyStr("s3://bucket/x")
Values(heap, n) ==
    IF n = data
    THEN {Literal, PyInt(3), PipelineParam("data", None, None)}
    ELSE {HmlRef(i) : i \in 1..Len(heap)} \cup {OpRef(i) : i \in 1..Len(heap)}

\* keyword mappings: every ordering of every subset of ParamNames (keys are distinct)
KwargsOver(heap) ==
    {<<>>}
      \cup UNION {{<<<<n, v>>>> : v \in Values(heap, n)} : n \in ParamNames}
      \cup UNION {{<<<<q[1], v1>>, <<q[2], v2>>>> :
                      v1 \in Values(heap, q[1]), v2 \in Values(heap, q[2])} :
                  q \in {q \in ParamNames \X ParamNames : q[1] # q[2]}}

\* Spec: registration with every keyword mapping, in one pipeline
RegPipelines == {PipeRef("demo")}

Next ==
    \/ \E p \in RegPipelines : Enter(p) /\ UNCHANGED <<calls, nfluent>>
    \/ Exit /\ UNCHANGED <<calls, nfluent>>
    \/ /\ Len(ops) < MaxOps
       /\ \E f \in Funcs : \E kw \in KwargsOver(ops) : Register(f, kw)
       /\ UNCHANGED <<calls, nfluent>>

Spec == Init /\ [][Next]_vars

\* SpecNest: nested activation of three pipelines; every call is recorded
\* with the current pipeline it left behind
Called(call, arg) == [call |-> call, arg |-> arg, cur |-> current_pipeline']

NextNest ==
    /\ Len(calls) < MaxCalls
    /\ UNCHANGED nfluent
    /\ \/ \E p \in Pipelines : Enter(p) /\ calls' = Append(calls, Called("enter", p))
       \/ Exit /\ calls' = Append(calls, Called("exit", None))
       \/ /\ Len(ops) < MaxOps
          /\ \E f \in Funcs : Register(f, <<>>) /\ calls' = Append(calls, Called("register", None))

SpecNest == Init /\ [][NextNest]_vars

\* SpecFluent: registrations followed by fluent configuration calls
FluentPipelines == {PipeRef("demo"), PipeRef("other")}
FluentKwargs == {<<<<data, Literal>>>>}

FluentCall ==
    \E self \in 1..Len(ops) :
        \/ with_image(self, "img/custom")
        \/ with_command(self, "python", <<PyStr("-m"), PyStr("job")>>)
        \/ with_secret(self, "db-secret", "/secrets/db")
        \/ with_gcp_auth(self, "user-gcp-sa")
        \/ with_env(self, "WORKERS", PyInt(4))
        \/ with_empty_dir(self, "scratch", "/tmp/scratch")

NextFluent ==
    \/ \E p \in FluentPipelines : Enter(p) /\ UNCHANGED <<calls, nfluent>>
    \/ Exit /\ UNCHANGED <<calls, nfluent>>
    \/ /\ Len(ops) < MaxOps
       /\ \E kw \in FluentKwargs : Register(train, kw)
       /\ UNCHANGED <<calls, nfluent>>
    \/ /\ nfluent < MaxFluent
       /\ FluentCall
       /\ nfluent' = nfluent + 1
       /\ UNCHANGED calls

SpecFluent == Init /\ [][NextFluent]_vars

(* ------------------------------ claims --------------------------------- *)
Range(f) == {f[i] : i \in DOMAIN f}
IsPrefix(a, b) == Len(a) <= Len(b) /\ SubSeq(b, 1, Len(a)) = a

\* the k-th keyword argument of an operation and the pair emitted for it
ArgName(o, k) == o.kwargs[k][1]
ArgValue(o, k) == o.kwargs[k][2]
FlagOf(o, k) == o.arguments[2 + 2 * k]
TokenOf(o, k) == o.arguments[3 + 2 * k]
Flag(n) == PyStr("--" \o Str(n))
InputsRef(n) == PyStr("{{inputs.parameters." \o Str(n) \o "}}")
TasksRef(src, n) == PyStr("{{tasks." \o src \o ".outputs.parameters." \o Str(n) \o "}}")

RegisterStep == ret'.call = "register"
RegisteredStep == ret'.call = "register" /\ ret'.kind = "return"
FluentCalls == {"with_image", "with_command", "with_secret", "with_gcp_auth",
                "with_env", "with_empty_dir"}
FluentStep == ret'.call \in FluentCalls

\* C1: a registration made while no pipeline is active raises to the caller and
\* logs an error; it adds no operation, changes no pipeline's operation list and
\* neither global pointer, and no operation ever has an unset owner.
C1_Step ==
    /\ (RegisterStep /\ current_pipeline = None) =>
          /\ ret'.kind = "raise"
          /\ "error" \in Range(log')
          /\ ops' = ops
          /\ ops_list' = ops_list
          /\ current_pipeline' = current_pipeline
          /\ old_pipeline' = old_pipeline
    /\ \A i \in 1..Len(ops') : ops'[i].pipeline # None
\* C1: every step is such that a registration without an active pipeline raises, logs an error and changes nothing.
C1_RegistrationWithoutPipelineFails == [][C1_Step]_vars
C1_Witness ==
    /\ ret = Raised("register", AttributeError)
    /\ current_pipeline = None
    /\ log = <<"error">>
    /\ Len(ops) > 0

\* C2: the argument sequence of every operation is "pipelines", the pipeline's
\* name, the operation's name, then one (--param, token) pair per keyword
\* argument in the mapping's insertion order: length 3 + 2n, the k-th pair
\* carrying the k-th inserted parameter, whatever the kinds of the values.
C2_ArgumentsInInsertionOrder ==
    \A i \in 1..Len(ops) :
        LET o == ops[i] IN
        /\ Len(o.arguments) = 3 + 2 * Len(o.kwargs)
        /\ SubSeq(o.arguments, 1, 3)
             = <<PyStr("pipelines"), PyStr(o.pipeline.name), PyStr(Str(o.func))>>
        /\ \A k \in 1..Len(o.kwargs) :
              /\ FlagOf(o, k) = Flag(ArgName(o, k))
              /\ TokenOf(o, k) \in
                   IF IsPipelineParam(ArgValue(o, k))
                   THEN {ArgValue(o, k)}
                   ELSE {InputsRef(ArgName(o, k))}
                          \cup {TasksRef(Str(sanitize_k8s_name(f)), ArgName(o, k)) : f \in Funcs}
C2_Witness ==
    \E i \in 1..Len(ops) :
        /\ Len(ops[i].kwargs) = 2
        /\ ArgName(ops[i], 1) = model_params
        /\ ArgValue(ops[i], 1).kind = "ContainerOp"
        /\ ArgValue(ops[i], 2).kind = "PipelineParam"

\* C3: a keyword argument whose value is the handle an earlier registration
\* returned is emitted as --param followed by
\* {{tasks.<sanitized source name>.outputs.parameters.<param>}}.
C3_HandleEmitsTaskReference ==
    \A i \in 1..Len(ops) : \A k \in 1..Len(ops[i].kwargs) :
        ArgValue(ops[i], k).kind = "HmlContainerOp" =>
            /\ FlagOf(ops[i], k) = Flag(ArgName(ops[i], k))
            /\ TokenOf(ops[i], k)
                 = TasksRef(Str(ops[ArgValue(ops[i], k).id].k8s_name), ArgName(ops[i], k))

\* C4: a keyword argument whose value is neither a pipeline parameter nor a
\* reference to another operation is emitted as --name, {{inputs.parameters.name}}
\* and recorded as one new pipeline parameter of that name holding the value.
IsLiteral(v) == v.kind \notin {"PipelineParam", "ContainerOp", "HmlContainerOp"}
C4_LiteralBecomesInputParameter ==
    \A i \in 1..Len(ops) :
        /\ Len(ops[i].inputs) = Len(ops[i].kwargs)
        /\ \A k \in 1..Len(ops[i].kwargs) :
              IsLiteral(ArgValue(ops[i], k)) =>
                  /\ FlagOf(ops[i], k) = Flag(ArgName(ops[i], k))
                  /\ TokenOf(ops[i], k) = InputsRef(ArgName(ops[i], k))
                  /\ ops[i].inputs[k]
                       = PipelineParam(Str(ArgName(ops[i], k)), None, ArgValue(ops[i], k))
C4_Witness ==
    \E i \in 1..Len(ops) : \E k \in 1..Len(ops[i].kwargs) :
        /\ ArgValue(ops[i], k) = PyInt(3)
        /\ k = 2
        /\ ops[i].inputs[k].value = PyInt(3)

\* C5: a keyword argument whose value is a pipeline parameter is emitted as
\* --param followed by a string token, and recorded as exactly one bound input
\* that is that same parameter.
C5_PipelineParamEmitsStringToken ==
    \A i \in 1..Len(ops) :
        /\ Len(ops[i].inputs) = Len(ops[i].kwargs)
        /\ \A k \in 1..Len(ops[i].kwargs) :
              IsPipelineParam(ArgValue(ops[i], k)) =>
                  /\ FlagOf(ops[i], k) = Flag(ArgName(ops[i], k))
                  /\ TokenOf(ops[i], k).kind = "str"
                  /\ ops[i].inputs[k] = ArgValue(ops[i], k)

\* C6: a successful registration adds exactly one new operation, at the end of
\* the active pipeline's list and of no other, and returns it, also when the
\* function was registered before; no step changes the argument list or the
\* bound inputs of an existing operation, a step that changes one operation
\* leaves every other one as it was, and the lists only grow at their end.
C6_Step ==
    /\ Len(ops') >= Len(ops)
    /\ \A i \in 1..Len(ops) :
          /\ ops'[i].arguments = ops[i].arguments
          /\ ops'[i].inputs = ops[i].inputs
          /\ ops'[i] # ops[i] => \A j \in 1..Len(ops) : j # i => ops'[j] = ops[j]
    /\ \A n \in PipelineNames : IsPrefix(ops_list[n], ops_list'[n])
    /\ RegisteredStep =>
          /\ Len(ops') = Len(ops) + 1
          /\ ret'.val = HmlRef(Len(ops'))
          /\ current_pipeline # None
          /\ \A n \in PipelineNames :
                ops_list'[n] = IF n = current_pipeline.name
                               THEN Append(ops_list[n], Len(ops'))
                               ELSE ops_list[n]
\* C6: every step is such that a successful registration appends one new operation to the active pipeline's list and existing operations keep their lists.
C6_RegistrationAppendsOneNewOperation == [][C6_Step]_vars
C6_Witness ==
    /\ Len(ops) = 2
    /\ ops[1].func = ops[2].func
    /\ ops[1].pipeline = ops[2].pipeline
    /\ ops_list[ops[1].pipeline.name] = <<1, 2>>
    /\ ops[1].arguments = ops[2].arguments
    /\ ops[1].op.arguments # ops[2].op.arguments
    /\ ret = Returned("register", None, HmlRef(2))

\* C7: from no active pipeline, enter(A), enter(B), exit() makes A current
\* again, a second exit() leaves A current (not unset), so a registration after
\* it is bound to A; enter(A), enter(B), enter(C), exit(), exit() leaves B
\* current with no pointer to A left.
A == PipeRef("demo")
B == PipeRef("other")
C == PipeRef("third")
EnterExitCalls ==
    LET ee == SelectSeq(calls, LAMBDA c : c.call # "register")
    IN  [i \in 1..Len(ee) |-> <<ee[i].call, ee[i].arg>>]
TwoLevels == <<<<"enter", A>>, <<"enter", B>>, <<"exit", None>>, <<"exit", None>>>>
ThreeLevels ==
    <<<<"enter", A>>, <<"enter", B>>, <<"enter", C>>, <<"exit", None>>, <<"exit", None>>>>
C7_OneLevelOfNestingIsRestored ==
    /\ EnterExitCalls = SubSeq(TwoLevels, 1, 3) => current_pipeline = A
    /\ EnterExitCalls = TwoLevels =>
          /\ current_pipeline = A
          /\ ret.call = "register" =>
                ret.kind = "return" /\ ops[ret.val.id].pipeline = A
    /\ EnterExitCalls = ThreeLevels =>
          /\ current_pipeline = B
          /\ old_pipeline # A
C7_Witness ==
    /\ EnterExitCalls = TwoLevels
    /\ calls[Len(calls)].call = "register"
    /\ ret = Returned("register", None, HmlRef(Len(ops)))
    /\ ops[Len(ops)].pipeline = A

\* C8: enter(P) makes P current, and an exit() that follows it with only
\* registrations in between makes current what it was just before that enter(P),
\* whatever enter and exit calls came earlier.
CurBefore(i) == IF i = 1 THEN None ELSE calls[i - 1].cur
C8_ExitRestoresWhatEnterReplaced ==
    /\ calls # <<>> => current_pipeline = calls[Len(calls)].cur
    /\ \A i \in 1..Len(calls) :
          calls[i].call = "enter" =>
              /\ calls[i].cur = calls[i].arg
              /\ \A j \in (i + 1)..Len(calls) :
                    (/\ calls[j].call = "exit"
                     /\ \A m \in (i + 1)..(j - 1) : calls[m].call = "register")
                    => calls[j].cur = CurBefore(i)
C8_Witness ==
    /\ Len(calls) = 5
    /\ calls[3].call = "enter"
    /\ calls[4].call = "register"
    /\ calls[5].call = "exit"
    /\ calls[2].cur \notin {None, calls[3].arg}
    /\ current_pipeline = calls[2].cur

\* C9: a fluent call returns the operation it was called on and leaves that
\* operation's name, sanitized identifier, bound inputs and owner, every other
\* operation, every pipeline's operation list and both global pointers unchanged.
C9_Step ==
    FluentStep =>
        /\ ret'.kind = "return"
        /\ ret'.self \in {HmlRef(i) : i \in 1..Len(ops)}
        /\ ret'.val = ret'.self
        /\ Len(ops') = Len(ops)
        /\ \A i \in 1..Len(ops) :
              /\ ops'[i].name = ops[i].name
              /\ ops'[i].k8s_name = ops[i].k8s_name
              /\ ops'[i].inputs = ops[i].inputs
              /\ ops'[i].pipeline = ops[i].pipeline
              /\ HmlRef(i) # ret'.self => ops'[i] = ops[i]
        /\ ops_list' = ops_list
        /\ current_pipeline' = current_pipeline
        /\ old_pipeline' = old_pipeline
\* C9: every fluent step returns the operation it was called on and changes only that operation's container settings.
C9_FluentCallsReturnSelfAndKeepTheRest == [][C9_Step]_vars
C9_Witness ==
    /\ nfluent = 2
    /\ Len(ops) = 2
    /\ ret = Returned("with_env", HmlRef(1), HmlRef(1))
    /\ ops[1].op.image = "img/custom"
    /\ Len(ops[1].op.env) = 1

\* C10: every operation in a pipeline's list is owned by that pipeline, every
\* operation is in exactly one list exactly once, and the owner of an operation
\* is the pipeline that was current when it was registered.
Places(i) ==
    {<<n, k>> \in PipelineNames \X (1..Len(ops')) :
        k <= Len(ops_list'[n]) /\ ops_list'[n][k] = i}
C10_Step ==
    /\ \A n \in PipelineNames : \A k \in 1..Len(ops_list'[n]) :
          /\ ops_list'[n][k] \in 1..Len(ops')
          /\ ops'[ops_list'[n][k]].pipeline = PipeRef(n)
    /\ \A i \in 1..Len(ops') : Cardinality(Places(i)) = 1
    /\ \A i \in 1..Len(ops) : ops'[i].pipeline = ops[i].pipeline
    /\ RegisteredStep =>
          /\ Len(ops') = Len(ops) + 1
          /\ ops'[Len(ops')].pipeline = current_pipeline
          /\ ops'[Len(ops')].pipeline = current_pipeline'
\* C10: after every step each listed operation is owned by its list's pipeline, is listed once, and a new one is owned by the current pipeline.
C10_OperationsBelongToThePipelineCurrentAtRegistration == [][C10_Step]_vars
C10_Witness ==
    /\ Len(ops) = 2
    /\ ops[1].pipeline # ops[2].pipeline
    /\ current_pipeline = ops[1].pipeline
    /\ old_pipeline = ops[1].pipeline
    /\ nfluent > 0

====
